---------------------------- MODULE Spec2Model ----------------------------
(***************************************************************************)
(* go-mdfmt: the tree model (pkg/parser/ast.go), the goldmark adapter that *)
(* builds it, and the formatting engine (pkg/formatter/formatter.go).      *)
(*                                                                         *)
(* Nodes live in a heap (a sequence indexed by node identity, the Go       *)
(* pointer); the Document holds the identities of its children, a List the *)
(* identities of its items, a Walker the identities it snapshotted.        *)
(***************************************************************************)
EXTENDS Integers, Sequences, FiniteSets, TLC

VARIABLES
    formatters, \* Engine.formatters: the ordered rule list
    nreg,       \* number of Register calls so far (stamps a formatter's identity)
    cfg,        \* the *config.Config handed to Format
    heap,       \* node identity -> node value; heap[DocId] is the Document
    walker,     \* the Walker of the running pass: [nodes, index]
    yielded,    \* history: the identities Walker.Next has returned with ok = true
    pc,         \* "source" | "build" | "format" | "done" | "failed";
                \* "walk" | "walked" for a consumer's own walk
    err,        \* the error Engine.Format, or main, got (NoError while none)
    applied,    \* history: one entry per NodeFormatter.Format invocation
    heap0,      \* history: the heap when Engine.Format was entered (the
                \* walker created)
    output,     \* MarkdownRenderer.output: the text written so far
    rpc,        \* "idle" | "render" | "returned": where Render is
    rnext,      \* renderDocument's loop: children rendered so far
    result,     \* the string Render returned
    rerr,       \* the error Render returned (NoError while none)
    verr,       \* what Config.Validate returned ("unchecked" before the call)
    written,    \* history: the text each renderNode call of Render wrote
    input,      \* the content formatMarkdownContent is called on
    formatted,  \* history: what the calls of formatMarkdownContent returned
    args,       \* ProcessingArgs: the mode flags of the invocation
    files,      \* the files of the batch as they were when the process started
    disk,       \* the content of each file of the batch now
    cpc,        \* "idle" | "main" | "files" | "exited": where the process is
    fidx,       \* processFiles' loop: files processed so far
    hasChanges, \* processFiles' hasChanges
    exitCode,   \* the exit code of the process (-1 while it runs)
    reads,      \* history: the files os.ReadFile was called on
    writes,     \* history: the files os.WriteFile was called on
    returns,    \* history: what the renderer's earlier Render calls returned
    seen        \* history: the node values a walker's consumer read at each yield

cvars == <<args, files, disk, cpc, fidx, hasChanges, exitCode, reads, writes>>

rvars == <<output, rpc, rnext, result, rerr, verr, written, input,
           formatted, cvars, returns, seen>>

pvars == <<input, formatted, cvars, returns, seen>>

vars == <<formatters, nreg, cfg, heap, walker, yielded, pc, err, applied,
          heap0, rvars>>

----------------------------------------------------------------------------
(* Bounds of the model. *)

MaxChildren == 2

MaxItems == 2

MaxCustom == 3

MaxDefaults == 2

----------------------------------------------------------------------------
(* Formatters (rules). *)

NodeKinds ==
    {"Document", "Heading", "Paragraph", "List", "ListItem", "CodeBlock", "Text"}

HeadingPriority == 100

\* A formatter value as RegisterDefaults builds it: &HeadingFormatter{} and
\* the like, the embedded BaseFormatter left at its zero value.  type is the
\* Go dynamic type; reg is the identity the value gets when registered.
ZeroFormatter(type) ==
    [type |-> type, name |-> "", priority |-> 0, accepts |-> {},
     failsOn |-> {}, reg |-> 0]

NewHeadingFormatter ==
    [type |-> "Heading", name |-> "heading", priority |-> HeadingPriority,
     accepts |-> {}, failsOn |-> {}, reg |-> 0]

\* A NodeFormatter implemented outside the package: any priority, any
\* CanFormat predicate, and a Format that returns an error on some kinds.
CustomFormatter(name, priority, accepts, failsOn) ==
    [type |-> "Custom", name |-> name, priority |-> priority,
     accepts |-> accepts, failsOn |-> failsOn, reg |-> 0]

DefaultTypes == <<"Heading", "Paragraph", "List", "CodeBlock", "Whitespace">>

Priority(f) == f.priority

CanFormat(f, kind) ==
    CASE f.type = "Heading"    -> kind = "Heading"
      [] f.type = "Paragraph"  -> kind = "Paragraph"
      [] f.type = "List"       -> kind \in {"List", "ListItem"}
      [] f.type = "CodeBlock"  -> kind = "CodeBlock"
      [] f.type = "Whitespace" -> TRUE
      [] OTHER                 -> kind \in f.accepts

Swap(s, i, j) == [s EXCEPT ![i] = s[j], ![j] = s[i]]

ShouldSwapOnTie(a, b) == Priority(a) >= Priority(b)

ShouldSwap(a, b) == Priority(a) > Priority(b)

RECURSIVE BubbleUp(_, _)
BubbleUp(fs, i) ==
    IF i > 1 /\ ShouldSwap(fs[i], fs[i - 1])
    THEN BubbleUp(Swap(fs, i, i - 1), i - 1)
    ELSE fs

\* Engine.Register; reg is the identity of the registered value.
RegisterOp(fs, f, reg) ==
    BubbleUp(Append(fs, [f EXCEPT !.reg = reg]), Len(fs) + 1)

RECURSIVE RegisterAll(_, _, _)
RegisterAll(fs, fseq, reg) ==
    IF fseq = <<>> THEN fs
    ELSE RegisterAll(RegisterOp(fs, Head(fseq), reg), Tail(fseq), reg + 1)

DefaultFormatters ==
    [i \in 1..Len(DefaultTypes) |-> ZeroFormatter(DefaultTypes[i])]

RegisterDefaultsInFront(fs, reg) ==
    RegisterAll(<<>>, DefaultFormatters, reg) \o fs

RegisterDefaultsOp(fs, reg) == RegisterAll(fs, DefaultFormatters, reg)


----------------------------------------------------------------------------
(* Settings.  Strings that reach the output are sequences of characters;   *)
(* tags that are only compared (the heading style) are plain strings.      *)

Dash == <<"-">>
Star == <<"*">>
Plus == <<"+">>
Dot == <<".">>
Paren == <<")">>
\* The backquote cannot be written in a string of this language: "^" stands
\* for it, so Backticks is the fence of three backquotes.
Backticks == <<"^", "^", "^">>
Tildes == <<"~", "~", "~">>

Default ==
    [LineWidth |-> 80,
     Heading |-> [Style |-> "atx", NormalizeLevels |-> TRUE],
     List |-> [BulletStyle |-> Dash, NumberStyle |-> Dot,
               ConsistentIndentation |-> TRUE],
     Code |-> [FenceStyle |-> Backticks, LanguageDetection |-> TRUE],
     Whitespace |-> [MaxBlankLines |-> 2, TrimTrailingSpaces |-> TRUE,
                     EnsureFinalNewline |-> TRUE]]

\* The settings a pass is run with: the defaults, two valid variations that
\* between them change every option the rules read, and one that
\* Config.Validate would reject (Format itself validates nothing).
ConfigInputs ==
    {Default,
     [Default EXCEPT !.Heading.Style = "setext", !.List.BulletStyle = Star,
                     !.List.NumberStyle = Paren, !.Code.FenceStyle = Tildes],
     [Default EXCEPT !.Heading.NormalizeLevels = FALSE,
                     !.List.BulletStyle = Plus,
                     !.Code.LanguageDetection = FALSE],
     [Default EXCEPT !.Heading.Style = "underline"]}

----------------------------------------------------------------------------
(* The tree model: pkg/parser/ast.go. *)

Nil == 0

DocId == 1

Document(kids) == [kind |-> "Document", Children |-> kids]

Heading(level, text, style) ==
    [kind |-> "Heading", Level |-> level, Text |-> text, Style |-> style]

Paragraph(text) == [kind |-> "Paragraph", Text |-> text]

List(ordered, items, marker) ==
    [kind |-> "List", Ordered |-> ordered, Items |-> items, Marker |-> marker]

ListItem(text, marker) == [kind |-> "ListItem", Text |-> text, Marker |-> marker]

CodeBlock(language, content, fenced, fence) ==
    [kind |-> "CodeBlock", Language |-> language, Content |-> content,
     Fenced |-> fenced, Fence |-> fence]

Text(content) == [kind |-> "Text", Content |-> content]

Type(h, id) == h[id].kind

Children == heap[DocId].Children

\* Walker: NewWalker snapshots the Document and its direct children.
NewWalkerDeep(h, doc) ==
    LET RECURSIVE Flat(_)
        Flat(ids) ==
            IF ids = <<>> THEN <<>>
            ELSE <<Head(ids)>>
                 \o (IF h[Head(ids)].kind = "List" THEN h[Head(ids)].Items
                     ELSE <<>>)
                 \o Flat(Tail(ids))
    IN [nodes |-> <<doc>> \o Flat(h[doc].Children), index |-> -1]

NewWalker(h, doc) == [nodes |-> <<doc>> \o h[doc].Children, index |-> -1]

\* Walker.Next: the advanced walker, the node (Nil when exhausted) and ok.
WalkerNext(w) ==
    LET i == w.index + 1
    IN [walker |-> [w EXCEPT !.index = i],
        ok |-> i < Len(w.nodes),
        node |-> IF i < Len(w.nodes) THEN w.nodes[i + 1] ELSE Nil]

----------------------------------------------------------------------------
(* The goldmark adapter: what Parse appends for each node ast.Walk enters. *)

LevelInputs == {1, 3}

SomeText == <<"a">>

\* The goldmark nodes the walk may enter.  Text is what extractText returns
\* for the node; Info is a fenced block's info string ("" when absent) and
\* Language its first word.
GoldmarkNodes ==
    {[Kind |-> "Heading", Level |-> l, Text |-> SomeText] : l \in LevelInputs}
    \cup {[Kind |-> "Paragraph", Text |-> SomeText]}
    \cup {[Kind |-> "List", IsOrdered |-> o, NItems |-> n, Text |-> SomeText] :
            o \in BOOLEAN, n \in 1..MaxItems}
    \cup {[Kind |-> "FencedCodeBlock", Info |-> i, Language |-> i,
           Text |-> SomeText] :
            i \in {<<>>, <<"g", "o">>, Tildes \o <<"g", "o">>}}
    \cup {[Kind |-> "CodeBlock", Text |-> SomeText]}
    \cup {[Kind |-> "Text", Text |-> SomeText]}
    \cup {[Kind |-> "ListItem", Text |-> t] : t \in {<<>>, SomeText}}

HasPrefix(s, prefix) ==
    /\ Len(s) >= Len(prefix)
    /\ SubSeq(s, 1, Len(prefix)) = prefix

getListMarker(g) == IF g.IsOrdered THEN Dot ELSE Dash

getListItemMarker == Dash

\* convertNode: the nodes it allocates, the last of them the node it returns
\* (a List's items are allocated before it); <<>> when it returns nil.
\* base is the number of nodes allocated so far.
convertNode(g, base) ==
    CASE g.Kind = "Heading" ->
            <<Heading(g.Level, g.Text, "atx")>>
      [] g.Kind = "Paragraph" ->
            <<Paragraph(g.Text)>>
      [] g.Kind = "List" ->
            [i \in 1..g.NItems |-> ListItem(g.Text, getListItemMarker)]
            \o <<List(g.IsOrdered, [i \in 1..g.NItems |-> base + i],
                      getListMarker(g))>>
      [] g.Kind = "FencedCodeBlock" ->
            <<CodeBlock(g.Language, g.Text, TRUE,
                        IF g.Info # <<>> /\ HasPrefix(g.Info, Tildes)
                        THEN Tildes ELSE Backticks)>>
      [] g.Kind = "CodeBlock" ->
            <<CodeBlock(<<>>, g.Text, FALSE, Backticks)>>
      [] g.Kind = "Text" ->
            <<Text(g.Text)>>
      [] OTHER ->
            IF g.Text # <<>> THEN <<Text(g.Text)>> ELSE <<>>

\* Trees built through the exported node types rather than by the adapter:
\* the nodes allocated, the last of them the child appended.
ApiNodes(base) ==
    {<<Heading(2, SomeText, "setext")>>,
     <<ListItem(SomeText, Star)>>,
     <<ListItem(SomeText, Star), List(FALSE, <<base + 1>>, Plus)>>,
     <<CodeBlock(<<>>, SomeText, FALSE, Tildes)>>}

\* ourDoc.Children = append(ourDoc.Children, ourNode), the nodes allocated
\* first.
AppendNodes(h, new) ==
    IF new = <<>> THEN h
    ELSE [(h \o new) EXCEPT
            ![DocId] = Document(Append(h[DocId].Children, Len(h) + Len(new)))]

----------------------------------------------------------------------------
(* The rules' Format methods: the node as the rule leaves it. *)

HeadingFormatAtxOnly(node, c) ==
    IF node.kind # "Heading" THEN node
    ELSE IF c.Heading.Style = "atx" THEN [node EXCEPT !.Style = "atx"]
    ELSE node

HeadingFormat(node, c) ==
    IF node.kind # "Heading" THEN node
    ELSE [node EXCEPT !.Style = IF c.Heading.Style = "atx" THEN "atx"
                                ELSE "setext"]

ParagraphFormatClearingText(node, c) ==
    IF node.kind # "Paragraph" THEN node
    ELSE [node EXCEPT !.Text = <<>>]

ParagraphFormat(node, c) == node

ListFormat(node, c) ==
    CASE node.kind = "List" ->
            IF ~node.Ordered THEN [node EXCEPT !.Marker = c.List.BulletStyle]
            ELSE node
      [] node.kind = "ListItem" ->
            [node EXCEPT !.Marker = c.List.BulletStyle]
      [] OTHER -> node

CodeBlockFormatAnyBlock(node, c) ==
    IF node.kind # "CodeBlock" THEN node
    ELSE [node EXCEPT !.Fence = c.Code.FenceStyle]

CodeBlockFormat(node, c) ==
    IF node.kind # "CodeBlock" THEN node
    ELSE IF node.Fenced THEN [node EXCEPT !.Fence = c.Code.FenceStyle]
    ELSE node

WhitespaceFormat(node, c) == node

NoError == [cause |-> "nil", attached |-> {}]

\* The error a rule's Format returns: its own value, made from what the
\* rule is handed (the node and the settings).
RuleError(f) == [cause |-> f.name, attached |-> {}]

\* NodeFormatter.Format, dispatched on the formatter's dynamic type.
FormatErr(f, node) ==
    IF f.type = "Custom" /\ node.kind \in f.failsOn THEN RuleError(f)
    ELSE NoError

FormatNode(f, node, c) ==
    CASE f.type = "Heading"    -> HeadingFormat(node, c)
      [] f.type = "Paragraph"  -> ParagraphFormat(node, c)
      [] f.type = "List"       -> ListFormat(node, c)
      [] f.type = "CodeBlock"  -> CodeBlockFormat(node, c)
      [] f.type = "Whitespace" -> WhitespaceFormat(node, c)
      [] OTHER                 -> node

----------------------------------------------------------------------------
(* Engine.Format. *)

\* The scan "for _, formatter := range e.formatters": the position of the
\* formatter that is applied to a node of this kind, 0 when none accepts it.
LastMatch(fs, kind) ==
    LET M == {k \in 1..Len(fs) : CanFormat(fs[k], kind)}
    IN IF M = {} THEN 0 ELSE CHOOSE k \in M : \A j \in M : j <= k

RECURSIVE FirstMatchFrom(_, _, _)
FirstMatchFrom(fs, kind, k) ==
    IF k > Len(fs) THEN 0
    ELSE IF CanFormat(fs[k], kind) THEN k
    ELSE FirstMatchFrom(fs, kind, k + 1)

FirstMatch(fs, kind) == FirstMatchFrom(fs, kind, 1)

\* "if err != nil { return err }": where the pass goes after a rule ran.
AfterRuleIgnoringError(e) == "format"

AfterRule(e) == IF e # NoError THEN "failed" ELSE "format"

\* The error Format hands to its caller when the rule returned e for the
\* node of this kind at this traversal index.
ReturnedError(e, kind, index) == e

New == RegisterDefaultsOp(<<>>, 1)

\* formatter.New() followed by RegisterDefaults(), as formatMarkdownContent
\* builds its engine.
NewThenRegisterDefaults == RegisterDefaultsOp(New, Len(New) + 1)

StrictFormatter ==
    CustomFormatter("strict", 5, {"Paragraph", "List", "CodeBlock"},
                    {"CodeBlock"})

EngineInputs ==
    {New,
     NewThenRegisterDefaults,
     RegisterOp(New, StrictFormatter, Len(New) + 1),
     RegisterAll(<<>>, <<ZeroFormatter("List"), NewHeadingFormatter,
                         ZeroFormatter("Heading")>>, 1)}

\* No process started.
CliIdle ==
    /\ args = [write |-> FALSE, check |-> FALSE, list |-> FALSE,
               diff |-> FALSE]
    /\ files = <<>>
    /\ disk = <<>>
    /\ cpc = "idle"
    /\ fidx = 0
    /\ hasChanges = FALSE
    /\ exitCode = -1
    /\ reads = <<>>
    /\ writes = <<>>

\* No Render and no Validate call made yet.
RenderIdle ==
    /\ output = <<>>
    /\ rpc = "idle"
    /\ rnext = 0
    /\ result = <<>>
    /\ rerr = NoError
    /\ verr = "unchecked"
    /\ written = <<>>
    /\ input = <<>>
    /\ formatted = <<>>
    /\ returns = <<>>
    /\ seen = <<>>
    /\ CliIdle

NoWalker == [nodes |-> <<>>, index |-> -1]

Init ==
    /\ formatters \in EngineInputs
    /\ nreg = Len(formatters)
    /\ cfg \in ConfigInputs
    /\ heap = <<Document(<<>>)>>
    /\ walker = NoWalker
    /\ yielded = <<>>
    /\ pc = "build"
    /\ err = NoError
    /\ applied = <<>>
    /\ heap0 = <<>>
    /\ RenderIdle

\* Parse: one callback of ast.Walk.
ParseVisit(g) ==
    /\ pc = "build"
    /\ Len(Children) < MaxChildren
    /\ heap' = AppendNodes(heap, convertNode(g, Len(heap)))
    /\ UNCHANGED <<formatters, nreg, cfg, walker, yielded, pc, err, applied,
                   heap0>>
    /\ UNCHANGED rvars

\* A child appended to Document.Children by a caller that builds the tree
\* itself.
AppendChild(new) ==
    /\ pc = "build"
    /\ Len(Children) < MaxChildren
    /\ heap' = AppendNodes(heap, new)
    /\ UNCHANGED <<formatters, nreg, cfg, walker, yielded, pc, err, applied,
                   heap0>>
    /\ UNCHANGED rvars

\* Engine.Format up to its loop: walker := parser.NewWalker(doc).
FormatStart ==
    /\ pc = "build"
    /\ pc' = "format"
    /\ walker' = NewWalker(heap, DocId)
    /\ heap0' = heap
    /\ UNCHANGED <<formatters, nreg, cfg, heap, yielded, err, applied>>
    /\ UNCHANGED rvars

\* One iteration of Format's loop: walker.Next(), then the scan of the
\* formatters and the call of the first that accepts the node.
FormatStep ==
    /\ pc = "format"
    /\ LET r == WalkerNext(walker)
           id == r.node
       IN /\ walker' = r.walker
          /\ IF ~r.ok
             THEN /\ pc' = "done"
                  /\ UNCHANGED <<heap, yielded, err, applied>>
             ELSE LET kind == Type(heap, id)
                      k == FirstMatch(formatters, kind)
                  IN /\ yielded' = Append(yielded, id)
                     /\ IF k = 0
                        THEN UNCHANGED <<heap, pc, err, applied>>
                        ELSE LET f == formatters[k]
                                 e == FormatErr(f, heap[id])
                                 after == IF e = NoError
                                          THEN FormatNode(f, heap[id], cfg)
                                          ELSE heap[id]
                             IN /\ heap' = [heap EXCEPT ![id] = after]
                                /\ applied' =
                                     Append(applied,
                                            [index |-> r.walker.index,
                                             rule |-> f.reg,
                                             after |-> after,
                                             failed |-> e # NoError])
                                /\ pc' = AfterRule(e)
                                /\ err' = IF e # NoError
                                          THEN ReturnedError(e, kind,
                                                             r.walker.index)
                                          ELSE err
    /\ UNCHANGED <<formatters, nreg, cfg, heap0>>
    /\ UNCHANGED rvars

Next ==
    \/ \E g \in GoldmarkNodes : ParseVisit(g)
    \/ \E new \in ApiNodes(Len(heap)) : AppendChild(new)
    \/ FormatStart
    \/ FormatStep

Spec == Init /\ [][Next]_vars

----------------------------------------------------------------------------
(* Registration alone: an Engine{} on which Register and RegisterDefaults  *)
(* are called in any order.                                                *)

PriorityInputs == {-1, 0, 5, 50, 95, HeadingPriority}

FormatterInputs ==
    {NewHeadingFormatter}
    \cup {CustomFormatter("custom", p, {"List"}, {}) : p \in PriorityInputs}

CountOf(fs, types) == Cardinality({k \in 1..Len(fs) : fs[k].type \in types})

InitRegister ==
    /\ formatters = <<>>
    /\ nreg = 0
    /\ cfg = Default
    /\ heap = <<Document(<<>>)>>
    /\ walker = NoWalker
    /\ yielded = <<>>
    /\ pc = "build"
    /\ err = NoError
    /\ applied = <<>>
    /\ heap0 = <<>>
    /\ RenderIdle

Register(f) ==
    /\ nreg - Len(DefaultTypes) * CountOf(formatters, {"Whitespace"}) < MaxCustom
    /\ formatters' = RegisterOp(formatters, f, nreg + 1)
    /\ nreg' = nreg + 1
    /\ UNCHANGED <<cfg, heap, walker, yielded, pc, err, applied, heap0>>
    /\ UNCHANGED rvars

RegisterDefaults ==
    /\ CountOf(formatters, {"Whitespace"}) < MaxDefaults
    /\ formatters' = RegisterDefaultsOp(formatters, nreg + 1)
    /\ nreg' = nreg + Len(DefaultTypes)
    /\ UNCHANGED <<cfg, heap, walker, yielded, pc, err, applied, heap0>>
    /\ UNCHANGED rvars

NextRegister ==
    \/ \E f \in FormatterInputs : Register(f)
    \/ RegisterDefaults

SpecRegister == InitRegister /\ [][NextRegister]_vars

----------------------------------------------------------------------------
(* Properties. *)

\* The engines that hold the default rules and nothing else.
DefaultRules == formatters \in {New, NewThenRegisterDefaults}

ListIds(h) == {id \in 1..Len(h) : h[id].kind = "List"}

CodeBlockIds(h) == {id \in 1..Len(h) : h[id].kind = "CodeBlock"}

ItemsOf(h, id) == {h[id].Items[i] : i \in 1..Len(h[id].Items)}

\* C1: after any sequence of Register calls the rule list is in descending
\* order of priority, and rules of equal priority are in the order in which
\* they were registered.
C1_RegisterSortsStably ==
    \A i, j \in 1..Len(formatters) :
        i < j =>
            \/ formatters[i].priority > formatters[j].priority
            \/ /\ formatters[i].priority = formatters[j].priority
               /\ formatters[i].reg < formatters[j].reg

\* A list in which a tie was kept in registration order and a rule
\* registered later stands before one registered earlier.
C1_Witness ==
    /\ \E i, j \in 1..Len(formatters) :
          /\ i < j
          /\ formatters[i].priority = formatters[j].priority
          /\ formatters[i].type = "Custom"
          /\ formatters[j].type = "Custom"
    /\ \E i, j \in 1..Len(formatters) :
          i < j /\ formatters[i].reg > formatters[j].reg

\* The formatters that accept a kind, and the invocations made for the node
\* at a traversal index.
Accepting(kind) ==
    {k \in 1..Len(formatters) : CanFormat(formatters[k], kind)}

AppliedAt(i) == {k \in 1..Len(applied) : applied[k].index = i}

\* C2: for every node the traversal has yielded, no rule was invoked when no
\* rule accepts its kind, and otherwise exactly one was: the first accepting
\* rule in rule-list order.
C2_FirstMatchingRuleOnly ==
    /\ \A k \in 1..Len(applied) : applied[k].index < Len(yielded)
    /\ \A i \in 0..(Len(yielded) - 1) :
          LET M == Accepting(Type(heap, yielded[i + 1]))
          IN IF M = {} THEN AppliedAt(i) = {}
             ELSE /\ Cardinality(AppliedAt(i)) = 1
                  /\ \A k \in AppliedAt(i) :
                        \E m \in M : /\ \A j \in M : m <= j
                                     /\ applied[k].rule = formatters[m].reg

\* A finished pass that met a node no rule accepts and a node that two
\* rules accept.
C2_Witness ==
    /\ pc = "done"
    /\ \E i \in 1..Len(yielded) : Accepting(Type(heap, yielded[i])) = {}
    /\ \E i \in 1..Len(yielded) :
          Cardinality(Accepting(Type(heap, yielded[i]))) >= 2

\* C3: when the rule applied at traversal index i returned an error, that
\* invocation is the last one, the pass has ended with that rule's error at
\* index i, and every node changed before i still holds the value its rule
\* gave it.
C3_ErrorAbortsWithoutRollback ==
    \A k \in 1..Len(applied) :
        applied[k].failed =>
            /\ k = Len(applied)
            /\ pc = "failed"
            /\ walker.index = applied[k].index
            /\ \E m \in 1..Len(formatters) :
                  /\ formatters[m].reg = applied[k].rule
                  /\ err.cause = formatters[m].name
            /\ \A j \in 1..(k - 1) :
                  /\ applied[j].index < applied[k].index
                  /\ heap[yielded[applied[j].index + 1]] = applied[j].after

\* A pass that failed after an earlier rule had changed its node.
C3_Witness ==
    /\ pc = "failed"
    /\ \E j \in 1..Len(applied) :
          /\ ~applied[j].failed
          /\ applied[j].after # heap0[yielded[applied[j].index + 1]]
          /\ heap[yielded[applied[j].index + 1]] = applied[j].after

\* C4: the error Format returns when a rule failed carries the kind and the
\* traversal index of the node the rule failed on.
C4_ErrorCarriesKindAndIndex ==
    pc = "failed" =>
        /\ \E a \in err.attached :
              a.key = "kind" /\ a.value = Type(heap, yielded[Len(yielded)])
        /\ \E a \in err.attached :
              a.key = "index" /\ a.value = walker.index

\* C5: the walker yields the Document, then the Document's children in
\* insertion order, each once and no List item among them, and reports
\* exhaustion after exactly these 1 + len(Children) yields.
C5_WalkerYieldsDocumentThenChildren ==
    LET full == <<DocId>> \o Children
    IN /\ Len(yielded) <= Len(full)
       /\ yielded = SubSeq(full, 1, Len(yielded))
       /\ \A i, j \in 1..Len(yielded) : i # j => yielded[i] # yielded[j]
       /\ \A i \in 1..Len(yielded) :
             \A l \in ListIds(heap) : yielded[i] \notin ItemsOf(heap, l)
       /\ pc = "done" => yielded = full
       /\ pc = "format" =>
             (WalkerNext(walker).ok <=> Len(yielded) < Len(full))

\* A walk that ended over a Document with two children, one a List of two
\* items.
C5_Witness ==
    /\ pc = "done"
    /\ Len(Children) = 2
    /\ \E i \in 1..Len(Children) :
          /\ Type(heap, Children[i]) = "List"
          /\ Len(heap[Children[i]].Items) = 2

\* The levels of the headings, in traversal order.
HeadingLevels ==
    LET RECURSIVE Levels(_)
        Levels(ids) ==
            IF ids = <<>> THEN <<>>
            ELSE (IF Type(heap, Head(ids)) = "Heading"
                  THEN <<heap[Head(ids)].Level>> ELSE <<>>)
                 \o Levels(Tail(ids))
    IN Levels(Children)

\* C6: with normalize_levels enabled, after Format every heading's level is
\* in 1..6, the first heading has level 1 and no heading is more than one
\* level below the deepest heading before it.
C6_HeadingLevelsNormalized ==
    (pc = "done" /\ DefaultRules /\ cfg.Heading.NormalizeLevels) =>
        LET ls == HeadingLevels
        IN /\ \A i \in 1..Len(ls) : ls[i] \in 1..6
           /\ ls # <<>> => ls[1] = 1
           /\ \A i \in 2..Len(ls) :
                 \E j \in 1..(i - 1) : ls[i] <= ls[j] + 1

\* C7: after Format with the default rules every unordered List child of
\* the Document, and every item of such a list, has the bullet style of the
\* settings as its marker.
C7_BulletStyleOnListAndItems ==
    (pc = "done" /\ DefaultRules) =>
        \A i \in 1..Len(Children) :
            LET n == heap[Children[i]]
            IN (n.kind = "List" /\ ~n.Ordered) =>
                  /\ n.Marker = cfg.List.BulletStyle
                  /\ \A it \in ItemsOf(heap, Children[i]) :
                        heap[it].Marker = cfg.List.BulletStyle

\* C8: after Format every List has a bullet marker exactly when it is
\* unordered and a numbering marker exactly when it is ordered, and each of
\* its items has the list's marker.
C8_MarkerConsistency ==
    (pc = "done" /\ DefaultRules) =>
        \A l \in ListIds(heap) :
            /\ heap[l].Marker \in {Dash, Star, Plus} <=> ~heap[l].Ordered
            /\ heap[l].Marker \in {Dot, Paren} <=> heap[l].Ordered
            /\ \A it \in ItemsOf(heap, l) : heap[it].Marker = heap[l].Marker

\* C9: after Format with the default rules a fenced CodeBlock has the fence
\* style of the settings, an unfenced one the fence it had, and every
\* CodeBlock its language, content and fenced flag as before.
C9_FenceStyleOnFencedBlocksOnly ==
    (pc = "done" /\ DefaultRules) =>
        \A b \in CodeBlockIds(heap) :
            /\ heap[b].Fenced => heap[b].Fence = cfg.Code.FenceStyle
            /\ ~heap[b].Fenced => heap[b].Fence = heap0[b].Fence
            /\ heap[b].Language = heap0[b].Language
            /\ heap[b].Content = heap0[b].Content
            /\ heap[b].Fenced = heap0[b].Fenced

\* A finished pass over a fenced block whose fence the rule changed and an
\* unfenced block whose fence is not the settings'.
C9_Witness ==
    /\ pc = "done"
    /\ DefaultRules
    /\ \E b \in CodeBlockIds(heap) :
          /\ heap[b].Fenced
          /\ heap0[b].Fence # cfg.Code.FenceStyle
          /\ heap[b].Language # <<>>
    /\ \E b \in CodeBlockIds(heap) :
          ~heap[b].Fenced /\ heap[b].Fence # cfg.Code.FenceStyle

\* C10: after Format with the default rules and a heading style of atx or
\* setext, every Heading child of the Document has that style.
C10_HeadingStyleFromSettings ==
    (pc = "done" /\ DefaultRules /\ cfg.Heading.Style \in {"atx", "setext"}) =>
        \A i \in 1..Len(Children) :
            Type(heap, Children[i]) = "Heading" =>
                heap[Children[i]].Style = cfg.Heading.Style

\* A finished pass that changed the style of a heading.
C10_Witness ==
    /\ pc = "done"
    /\ DefaultRules
    /\ cfg.Heading.Style \in {"atx", "setext"}
    /\ \E i \in 1..Len(Children) :
          /\ Type(heap, Children[i]) = "Heading"
          /\ heap0[Children[i]].Style # cfg.Heading.Style
          /\ heap[Children[i]].Style = cfg.Heading.Style

----------------------------------------------------------------------------
(* Strings: the functions of package strings the renderer calls, on         *)
(* sequences of characters.                                                 *)

NL == <<"\n">>

SP == <<" ">>

Whitespace == {" ", "\t", "\n", "\r"}

RECURSIVE Repeat(_, _)
Repeat(s, n) == IF n <= 0 THEN <<>> ELSE s \o Repeat(s, n - 1)

HasSuffix(s, suffix) ==
    /\ Len(s) >= Len(suffix)
    /\ SubSeq(s, Len(s) - Len(suffix) + 1, Len(s)) = suffix

RECURSIVE TrimLeft(_, _)
TrimLeft(s, cutset) ==
    IF s # <<>> /\ Head(s) \in cutset THEN TrimLeft(Tail(s), cutset) ELSE s

RECURSIVE TrimRight(_, _)
TrimRight(s, cutset) ==
    IF s # <<>> /\ s[Len(s)] \in cutset
    THEN TrimRight(SubSeq(s, 1, Len(s) - 1), cutset)
    ELSE s

TrimSpace(s) == TrimLeft(TrimRight(s, Whitespace), Whitespace)

\* strings.Split(s, sep) for a separator of one character: always at least
\* one piece, an empty last piece when s ends with the separator.
RECURSIVE SplitFrom(_, _, _, _)
SplitFrom(s, sep, i, cur) ==
    IF i > Len(s) THEN <<cur>>
    ELSE IF s[i] = sep THEN <<cur>> \o SplitFrom(s, sep, i + 1, <<>>)
    ELSE SplitFrom(s, sep, i + 1, Append(cur, s[i]))

Split(s, sep) == SplitFrom(s, sep, 1, <<>>)

RECURSIVE Join(_, _)
Join(parts, sep) ==
    IF parts = <<>> THEN <<>>
    ELSE IF Len(parts) = 1 THEN parts[1]
    ELSE parts[1] \o sep \o Join(Tail(parts), sep)

\* strings.Fields: the maximal runs of non-whitespace characters.
RECURSIVE FieldsFrom(_, _, _)
FieldsFrom(s, i, cur) ==
    IF i > Len(s) THEN (IF cur = <<>> THEN <<>> ELSE <<cur>>)
    ELSE IF s[i] \in Whitespace
         THEN (IF cur = <<>> THEN <<>> ELSE <<cur>>) \o FieldsFrom(s, i + 1, <<>>)
    ELSE FieldsFrom(s, i + 1, Append(cur, s[i]))

Fields(s) == FieldsFrom(s, 1, <<>>)

----------------------------------------------------------------------------
(* The renderer: pkg/renderer/renderer.go.  Each render function is the    *)
(* text it writes to r.output.                                             *)

\* A line break taken as soon as the word would reach the width.
StartsNewLineAtWidth(cur, word, width) ==
    Len(cur) > 0 /\ Len(cur) + 1 + Len(word) >= width

\* "currentLine.Len() > 0 && currentLine.Len()+1+len(word) > width"
StartsNewLine(cur, word, width) ==
    Len(cur) > 0 /\ Len(cur) + 1 + Len(word) > width

wrapText(text, width) ==
    LET words == Fields(text)
        RECURSIVE Loop(_, _, _)
        Loop(i, cur, lines) ==
            IF i > Len(words) THEN lines
            ELSE LET word == words[i]
                     flush == StartsNewLine(cur, word, width)
                     lines1 == IF flush THEN Append(lines, cur) ELSE lines
                     cur1 == IF flush THEN <<>> ELSE cur
                     cur2 == (IF Len(cur1) > 0 THEN cur1 \o SP ELSE cur1)
                             \o word
                     lines2 == IF i = Len(words) THEN Append(lines1, cur2)
                               ELSE lines1
                 IN Loop(i + 1, cur2, lines2)
    IN IF width <= 0 THEN text
       ELSE IF Len(words) = 0 THEN text
       ELSE Join(Loop(1, <<>>, <<>>), NL)

\* An underline as long as the text as it stands, blanks included.
UnderlineLengthUntrimmed(text) ==
    IF Len(text) = 0 THEN 3 ELSE Len(text)

\* The length of a setext heading's underline.
UnderlineLength(text) ==
    LET textLength == Len(TrimSpace(text))
    IN IF textLength = 0 THEN 3 ELSE textLength

renderHeading(heading) ==
    IF heading.Style = "setext" /\ heading.Level <= 2
    THEN heading.Text \o NL
         \o Repeat(IF heading.Level = 2 THEN <<"-">> ELSE <<"=">>,
                   UnderlineLength(heading.Text))
         \o NL \o NL
    ELSE Repeat(<<"#">>, heading.Level) \o SP \o heading.Text \o NL \o NL

renderParagraph(para, c) ==
    (IF c.LineWidth > 0 THEN wrapText(para.Text, c.LineWidth) ELSE para.Text)
    \o NL \o NL

renderListItem(item, depth, c) ==
    Repeat(<<" ", " ">>, depth)
    \o (IF item.Marker = <<>> THEN c.List.BulletStyle ELSE item.Marker)
    \o SP \o item.Text

\* What renderList writes after the last item.
ListEnd == NL

\* What renderList writes before every item but the first.
ItemSeparator == NL

renderList(h, list, depth, c) ==
    LET RECURSIVE Items(_)
        Items(i) ==
            IF i > Len(list.Items) THEN <<>>
            ELSE (IF i > 1 THEN ItemSeparator ELSE <<>>)
                 \o renderListItem(h[list.Items[i]], depth + 1, c)
                 \o Items(i + 1)
    IN Items(1) \o ListEnd

\* The newline renderCodeBlock adds after the content of a fenced block.
ContentEnd(content) == IF ~HasSuffix(content, NL) THEN NL ELSE <<>>

renderCodeBlock(code) ==
    IF code.Fenced
    THEN code.Fence
         \o (IF code.Language # <<>> THEN code.Language ELSE <<>>)
         \o NL \o code.Content \o ContentEnd(code.Content)
         \o code.Fence \o NL \o NL
    ELSE LET lines == Split(code.Content, "\n")
             RECURSIVE Lines(_)
             Lines(i) ==
                 IF i > Len(lines) THEN <<>>
                 ELSE <<" ", " ", " ", " ">> \o lines[i] \o NL \o Lines(i + 1)
         IN Lines(1) \o NL

renderText(text, c) ==
    IF c.Whitespace.TrimTrailingSpaces
    THEN LET lines == Split(text.Content, "\n")
         IN Join([i \in 1..Len(lines) |-> TrimRight(lines[i], {" ", "\t"})],
                 NL)
    ELSE text.Content

\* An error naming the kind, for a node of a kind without a case.
UnknownNodeErrorRaised(kind) ==
    [cause |-> "unknown node type", attached |-> {kind}]

\* renderNode's default case: the error it returns for a node of a kind it
\* has no case for.
UnknownNodeError(kind) == NoError

\* renderNode: the text written and the error returned.
renderNode(h, id, depth, c) ==
    LET n == h[id]
    IN CASE n.kind = "Heading"   -> [text |-> renderHeading(n), err |-> NoError]
         [] n.kind = "Paragraph" -> [text |-> renderParagraph(n, c),
                                     err |-> NoError]
         [] n.kind = "List"      -> [text |-> renderList(h, n, depth, c),
                                     err |-> NoError]
         [] n.kind = "ListItem"  -> [text |-> renderListItem(n, depth, c),
                                     err |-> NoError]
         [] n.kind = "CodeBlock" -> [text |-> renderCodeBlock(n),
                                     err |-> NoError]
         [] n.kind = "Text"      -> [text |-> renderText(n, c), err |-> NoError]
         [] OTHER                -> [text |-> <<>>,
                                     err |-> UnknownNodeError(n.kind)]

\* A newline appended whenever the option is enabled.
FinalNewlineAlways(out, c) ==
    IF c.Whitespace.EnsureFinalNewline THEN out \o NL ELSE out

\* Render's final step on the accumulated output.
FinalNewline(out, c) ==
    IF c.Whitespace.EnsureFinalNewline /\ ~HasSuffix(out, NL)
    THEN out \o NL
    ELSE out

----------------------------------------------------------------------------
(* The rendering specification: a document is built, then Render(doc, cfg) *)
(* runs over it one child at a time.                                        *)

MaxRenderChildren == 2

\* The settings Render is called with.  The widths are small so that the
\* paragraphs below wrap; Render itself validates nothing.
RenderConfigs ==
    {[Default EXCEPT !.LineWidth = 4],
     [Default EXCEPT !.LineWidth = 5, !.List.BulletStyle = Star,
                     !.Whitespace.MaxBlankLines = 0],
     [Default EXCEPT !.LineWidth = 0,
                     !.Whitespace.TrimTrailingSpaces = FALSE,
                     !.Whitespace.EnsureFinalNewline = FALSE],
     Default}

HeadingTexts == {<<>>, <<"H", "i">>, <<" ", "H", "i", " ">>, <<" ">>}

ParagraphTexts ==
    {<<>>,
     <<" ">>,
     <<"a", "b", " ", "c">>,
     <<"a", "b", " ", "c", "d">>,
     <<"a", "b", "c", "d", "e", "f", " ", "g">>,
     <<" ", "a", " ", " ", "b", "c", "d", "\n", "e", " ">>}

CodeContents ==
    {<<>>,
     <<"x">>,
     <<"x", "\n">>,
     <<"x", "\n", "\n", "\n", "\n", "y">>}

TextContents ==
    {<<"a">>,
     <<"a", " ", "\n", "b", "\t">>,
     <<"a", "\n", "\n", "\n", "\n", "b", "\n">>}

\* Top-level children of every kind, as the nodes to allocate at base + 1 ..
\* (the child itself last, the items of a list before it).
WideNodes(base) ==
    {<<Heading(l, t, s)>> :
        l \in {1, 2, 3}, t \in HeadingTexts, s \in {"atx", "setext"}}
    \cup {<<Paragraph(t)>> : t \in ParagraphTexts}
    \cup {<<CodeBlock(l, c, TRUE, f)>> :
            l \in {<<>>, <<"g", "o">>}, c \in CodeContents,
            f \in {Backticks, Tildes}}
    \cup {<<CodeBlock(<<>>, c, FALSE, <<>>)>> : c \in CodeContents}
    \cup {<<Text(c)>> : c \in TextContents}
    \cup {<<List(FALSE, <<>>, Dash)>>,
          <<ListItem(<<"a">>, <<>>), List(FALSE, <<base + 1>>, <<>>)>>,
          <<ListItem(<<"a">>, Dash), ListItem(<<"b">>, Plus),
            List(FALSE, <<base + 1, base + 2>>, Dash)>>,
          <<ListItem(<<"a", " ">>, <<"1", ".">>), ListItem(<<"b">>, <<>>),
            List(TRUE, <<base + 1, base + 2>>, <<"1", ".">>)>>}
    \cup {<<ListItem(<<"a">>, <<>>)>>, <<Document(<<>>)>>}

\* The children a document is continued with.
CoreNodes(base) ==
    {<<Heading(2, <<"H", "i">>, "setext")>>,
     <<Paragraph(<<" ">>)>>,
     <<Paragraph(<<"a", "b", " ", "c", "d">>)>>,
     <<Text(<<"a">>)>>,
     <<ListItem(<<"a">>, Dash), ListItem(<<"b">>, Dash),
       List(FALSE, <<base + 1, base + 2>>, Dash)>>,
     <<Document(<<>>)>>}

RenderInputs(h) ==
    IF Len(h[DocId].Children) = 0 THEN WideNodes(Len(h)) ELSE CoreNodes(Len(h))

InitRender ==
    /\ formatters = <<>>
    /\ nreg = 0
    /\ cfg \in RenderConfigs
    /\ heap = <<Document(<<>>)>>
    /\ walker = NoWalker
    /\ yielded = <<>>
    /\ pc = "build"
    /\ err = NoError
    /\ applied = <<>>
    /\ heap0 = <<>>
    /\ RenderIdle

fvars == <<formatters, nreg, cfg, walker, yielded, pc, err, applied, heap0>>

\* A child appended to the document before it is rendered.
RenderAppendChild(new) ==
    /\ rpc = "idle"
    /\ Len(Children) < MaxRenderChildren
    /\ heap' = AppendNodes(heap, new)
    /\ UNCHANGED <<fvars, rvars>>

RenderStartKeepingOutput ==
    /\ rpc = "idle"
    /\ rpc' = "render"
    /\ rnext' = 0
    /\ written' = <<>>
    /\ UNCHANGED <<fvars, heap, output, result, rerr, verr, pvars>>

\* Render up to renderDocument's loop: r.output.Reset(); r.config = cfg.
RenderStart ==
    /\ rpc = "idle"
    /\ rpc' = "render"
    /\ output' = <<>>
    /\ rnext' = 0
    /\ written' = <<>>
    /\ UNCHANGED <<fvars, heap, result, rerr, verr, pvars>>

\* One iteration of renderDocument's loop.
RenderChild ==
    /\ rpc = "render"
    /\ rnext < Len(Children)
    /\ LET r == renderNode(heap, Children[rnext + 1], 0, cfg)
       IN IF r.err # NoError
          THEN /\ rpc' = "returned"
               /\ result' = <<>>
               /\ rerr' = r.err
               /\ UNCHANGED <<output, rnext, written>>
          ELSE /\ output' = output \o r.text
               /\ written' = Append(written, r.text)
               /\ rnext' = rnext + 1
               /\ UNCHANGED <<rpc, result, rerr>>
    /\ UNCHANGED <<fvars, heap, verr, pvars>>

\* Render after the loop: the final newline and the return.
RenderReturn ==
    /\ rpc = "render"
    /\ rnext = Len(Children)
    /\ rpc' = "returned"
    /\ result' = FinalNewline(output, cfg)
    /\ rerr' = NoError
    /\ UNCHANGED <<fvars, heap, output, rnext, verr, written, pvars>>

NextRender ==
    \/ \E new \in RenderInputs(heap) : RenderAppendChild(new)
    \/ RenderStart
    \/ RenderChild
    \/ RenderReturn

SpecRender == InitRender /\ [][NextRender]_vars

\* Render returned a string and no error.
Rendered == rpc = "returned" /\ rerr = NoError

----------------------------------------------------------------------------
(* Properties of the renderer. *)

\* The lines of a text: the pieces its newlines terminate, and the rest
\* after the last newline when there is one.
OutputLines(s) ==
    LET pieces == Split(s, "\n")
    IN IF s = <<>> THEN <<>>
       ELSE IF HasSuffix(s, NL) THEN SubSeq(pieces, 1, Len(pieces) - 1)
       ELSE pieces

\* A run of more than n consecutive empty lines.
HasBlankRunOver(s, n) ==
    LET lines == OutputLines(s)
    IN \E i \in 1..Len(lines) :
         /\ i + n <= Len(lines)
         /\ \A j \in i..(i + n) : lines[j] = <<>>

\* C12: with max_blank_lines = N, the string Render returns holds no run of
\* more than N consecutive blank lines.
C12_BlankLinesBounded ==
    Rendered => ~HasBlankRunOver(result, cfg.Whitespace.MaxBlankLines)

\* The children renderNode has been called on, by position.
RenderedIndexes == 1..Len(written)

RenderedNode(i) == heap[Children[i]]

RenderedOfKind(kind) == {i \in RenderedIndexes : RenderedNode(i).kind = kind}

\* A text followed by a blank line: the text, the newline that ends its last
\* line, and an empty line.
WithBlankLine(s) == s \o NL \o NL

RECURSIVE Flatten(_)
Flatten(seqs) == IF seqs = <<>> THEN <<>> ELSE Head(seqs) \o Flatten(Tail(seqs))

\* lines is a greedy wrapping of words to width w: the lines hold the words
\* in order, whole and joined by single spaces; a line longer than w holds
\* one word; and the first word of a line did not fit on the line before.
IsGreedyWrap(lines, words, w) ==
    /\ Flatten([i \in 1..Len(lines) |-> Fields(lines[i])]) = words
    /\ \A i \in 1..Len(lines) :
         /\ lines[i] = Join(Fields(lines[i]), SP)
         /\ Len(lines[i]) > w => Len(Fields(lines[i])) = 1
    /\ \A i \in 1..(Len(lines) - 1) :
         /\ Fields(lines[i + 1]) # <<>>
         /\ Len(lines[i]) + 1 + Len(Fields(lines[i + 1])[1]) > w

\* The text a paragraph wrote is lines joined by newlines, then a blank line,
\* for a greedy wrapping of the paragraph's words.
WroteGreedyWrap(i) ==
    /\ HasSuffix(written[i], NL \o NL)
    /\ IsGreedyWrap(Split(SubSeq(written[i], 1, Len(written[i]) - 2), "\n"),
                    Fields(RenderedNode(i).Text), cfg.LineWidth)

\* C13 as stated: for line_width W > 0 every Paragraph is rendered as the
\* greedy wrapping of its whitespace-delimited words (words whole, single
\* spaces, no line over W but a lone long word), then a blank line.
C13_ParagraphGreedyWrap ==
    cfg.LineWidth > 0 =>
        \A i \in RenderedOfKind("Paragraph") : WroteGreedyWrap(i)

\* C13, amended: for line_width W > 0 a Paragraph whose text holds at least
\* one word is rendered as the greedy wrapping of its words, every line
\* holding a word, then a blank line; a Paragraph whose text holds no word
\* is rendered as its text unchanged, then a blank line.
C13_ParagraphGreedyWrapOfWords ==
    cfg.LineWidth > 0 =>
        \A i \in RenderedOfKind("Paragraph") :
            IF Fields(RenderedNode(i).Text) = <<>>
            THEN written[i] = WithBlankLine(RenderedNode(i).Text)
            ELSE /\ WroteGreedyWrap(i)
                 /\ \A l \in 1..Len(OutputLines(written[i])) - 1 :
                      Fields(OutputLines(written[i])[l]) # <<>>

\* A paragraph was wrapped onto several lines, one of them a single word
\* longer than the width, and another was written that holds no word.
C13_Witness ==
    /\ cfg.LineWidth > 0
    /\ \E i \in RenderedOfKind("Paragraph") :
         /\ Len(OutputLines(written[i])) > 2
         /\ \E l \in 1..Len(OutputLines(written[i])) :
              Len(OutputLines(written[i])[l]) > cfg.LineWidth
    /\ \E i \in RenderedOfKind("Paragraph") :
         /\ RenderedNode(i).Text # <<>>
         /\ Fields(RenderedNode(i).Text) = <<>>

\* The texts renderListItem writes for the items of the list rendered at i.
ItemTexts(i) ==
    [k \in 1..Len(RenderedNode(i).Items) |->
        renderListItem(heap[RenderedNode(i).Items[k]], 1, cfg)]

\* C14: a List is rendered with a blank line between each item and the next,
\* and the rendering of a non-empty List ends with one blank line after the
\* last item.
C14_ListBlankLines ==
    \A i \in RenderedOfKind("List") :
        RenderedNode(i).Items # <<>> =>
            written[i] = WithBlankLine(Join(ItemTexts(i), NL \o NL))

\* n copies of the character ch.
Chars(ch, n) == [k \in 1..n |-> ch]

\* The underline the claim gives a setext heading.
Underline(heading) ==
    Chars(IF heading.Level = 1 THEN "=" ELSE "-",
          IF TrimSpace(heading.Text) = <<>> THEN 3
          ELSE Len(TrimSpace(heading.Text)))

\* C15: a Heading with style setext and level 1 or 2 is rendered as its text,
\* a newline, an underline of "=" (level 1) or "-" (level 2) as long as the
\* trimmed text, or of length 3 when the trimmed text is empty, then a blank
\* line; every other heading is rendered as level "#" characters, a space,
\* the text, then a blank line.
C15_HeadingRendering ==
    \A i \in RenderedOfKind("Heading") :
        LET heading == RenderedNode(i)
        IN IF heading.Style = "setext" /\ heading.Level \in {1, 2}
           THEN written[i] =
                    WithBlankLine(heading.Text \o NL \o Underline(heading))
           ELSE written[i] =
                    WithBlankLine(Chars("#", heading.Level) \o SP
                                  \o heading.Text)

\* Two headings were rendered: a setext one of level 1 or 2 whose text is
\* only whitespace, and a setext one of level 3.
C15_Witness ==
    /\ \E i \in RenderedOfKind("Heading") :
         /\ RenderedNode(i).Style = "setext"
         /\ RenderedNode(i).Level = 1
         /\ RenderedNode(i).Text # <<>>
         /\ TrimSpace(RenderedNode(i).Text) = <<>>
    /\ \E i \in RenderedOfKind("Heading") :
         /\ RenderedNode(i).Style = "setext"
         /\ RenderedNode(i).Level = 2
         /\ Len(TrimSpace(RenderedNode(i).Text)) = 2

\* A fenced block as the claim gives it.
FencedAsClaimed(code) ==
    code.Fence \o code.Language \o NL
    \o code.Content
    \o (IF HasSuffix(code.Content, NL) THEN <<>> ELSE NL)
    \o code.Fence \o NL \o NL

\* An unfenced block as the claim gives it: every line of the content with
\* four spaces before it, then an empty line.
IndentedAsClaimed(code) ==
    LET lines == OutputLines(code.Content)
    IN Flatten([k \in 1..Len(lines) |-> Chars(" ", 4) \o lines[k] \o NL])
       \o NL

\* C16: a fenced CodeBlock is rendered as fence, language tag if present,
\* newline, the content followed by a newline if it does not end with one,
\* fence, newline and a blank line; an unfenced CodeBlock is rendered as each
\* line of its content prefixed with four spaces, followed by a blank line.
C16_CodeBlockRendering ==
    \A i \in RenderedOfKind("CodeBlock") :
        written[i] = IF RenderedNode(i).Fenced
                     THEN FencedAsClaimed(RenderedNode(i))
                     ELSE IndentedAsClaimed(RenderedNode(i))

\* C17: with ensure_final_newline enabled the string Render returns ends
\* with a newline, and is the accumulated output with a newline appended only
\* when that output does not already end with one; with it disabled Render
\* returns the accumulated output unchanged.
C17_FinalNewline ==
    Rendered =>
        IF cfg.Whitespace.EnsureFinalNewline
        THEN /\ HasSuffix(result, NL)
             /\ result = IF HasSuffix(output, NL) THEN output
                         ELSE output \o NL
        ELSE result = output

\* Render returned, with the option enabled, for an output that did not end
\* with a newline.
C17_Witness ==
    /\ Rendered
    /\ cfg.Whitespace.EnsureFinalNewline
    /\ output # <<>>
    /\ ~HasSuffix(output, NL)

\* The kinds renderNode has a case for.
RecognisedKinds ==
    {"Heading", "Paragraph", "List", "ListItem", "CodeBlock", "Text"}

\* The document holds a child of a kind the renderer has no case for.
HasUnrecognisedChild ==
    \E i \in 1..Len(Children) : heap[Children[i]].kind \notin RecognisedKinds

\* C18 as stated: Render fails with an error whenever the document holds a
\* child of a kind the renderer does not recognise.
C18_UnrecognisedKindFails ==
    (rpc = "returned" /\ HasUnrecognisedChild) => rerr # NoError

\* C18, amended: Render returns no error for a document that holds a child of
\* an unrecognised kind: it writes nothing for that child and returns the
\* text of the other children.
C18_UnrecognisedKindSkipped ==
    /\ \A i \in RenderedIndexes :
         RenderedNode(i).kind \notin RecognisedKinds => written[i] = <<>>
    /\ rpc = "returned" =>
         /\ rerr = NoError
         /\ Len(written) = Len(Children)
         /\ output = Flatten(written)

\* Render returned for a document holding a nested Document and then a
\* child it wrote text for.
C18_Witness ==
    /\ rpc = "returned"
    /\ Len(Children) = 2
    /\ heap[Children[1]].kind = "Document"
    /\ written[2] # <<>>

\* C19: with trim_trailing_spaces enabled, no line of the text Render
\* returns ends with a space or a tab, whatever the kinds of the nodes.
C19_NoTrailingSpaces ==
    (Rendered /\ cfg.Whitespace.TrimTrailingSpaces) =>
        \A l \in 1..Len(OutputLines(result)) :
            LET line == OutputLines(result)[l]
            IN line # <<>> => line[Len(line)] \notin {" ", "\t"}

----------------------------------------------------------------------------
(* Config.Validate: pkg/config/config.go. *)

\* A line width Validate accepts from zero up.
LineWidthRejectedBelowZero(c) == c.LineWidth < 0

\* "if c.LineWidth < 1"
LineWidthRejected(c) == c.LineWidth < 1

\* Validate: the first check that fails, "nil" when none does.
Validate(c) ==
    IF LineWidthRejected(c) THEN "line_width must be greater than 0"
    ELSE IF c.Heading.Style \notin {"atx", "setext"}
         THEN "heading.style must be 'atx' or 'setext'"
    ELSE IF c.List.BulletStyle \notin {Dash, Star, Plus}
         THEN "list.bullet_style must be '-', '*', or '+'"
    ELSE IF c.List.NumberStyle \notin {Dot, Paren}
         THEN "list.number_style must be '.' or ')'"
    ELSE IF c.Code.FenceStyle \notin {Backticks, Tildes}
         THEN "code.fence_style must be '^^^' or '~~~'"
    ELSE IF c.Whitespace.MaxBlankLines < 0
         THEN "whitespace.max_blank_lines must be >= 0"
    ELSE "nil"

\* The configurations Validate is called on: every combination of valid and
\* invalid values of the six options it reads, Default() among them.
ValidateInputs ==
    {[Default EXCEPT !.LineWidth = w, !.Heading.Style = s,
                     !.List.BulletStyle = b, !.List.NumberStyle = n,
                     !.Code.FenceStyle = f, !.Whitespace.MaxBlankLines = m] :
        w \in {-1, 0, 1, 80},
        s \in {"atx", "setext", "underline", ""},
        b \in {Dash, Star, Plus, <<"o">>},
        n \in {Dot, Paren, <<":">>},
        f \in {Backticks, Tildes, <<"^", "^">>},
        m \in {-1, 0, 2}}

InitValidate ==
    /\ formatters = <<>>
    /\ nreg = 0
    /\ cfg \in ValidateInputs
    /\ heap = <<Document(<<>>)>>
    /\ walker = NoWalker
    /\ yielded = <<>>
    /\ pc = "build"
    /\ err = NoError
    /\ applied = <<>>
    /\ heap0 = <<>>
    /\ RenderIdle

\* c.Validate()
CallValidate ==
    /\ verr = "unchecked"
    /\ verr' = Validate(cfg)
    /\ UNCHANGED <<fvars, heap, output, rpc, rnext, result, rerr, written,
                   pvars>>

NextValidate == CallValidate

SpecValidate == InitValidate /\ [][NextValidate]_vars

\* The six conditions of a valid configuration.
IsValidConfig(c) ==
    /\ c.LineWidth >= 1
    /\ c.Heading.Style \in {"atx", "setext"}
    /\ c.List.BulletStyle \in {<<"-">>, <<"*">>, <<"+">>}
    /\ c.List.NumberStyle \in {<<".">>, <<")">>}
    /\ c.Code.FenceStyle \in {<<"^", "^", "^">>, <<"~", "~", "~">>}
    /\ c.Whitespace.MaxBlankLines >= 0

\* C20: Config.Validate returns an error exactly when one of the six
\* conditions fails, and nil otherwise, in particular for Default().
C20_ValidateExactlyWhenInvalid ==
    verr # "unchecked" =>
        /\ (verr # "nil") <=> ~IsValidConfig(cfg)
        /\ cfg = Default => verr = "nil"

\* Validate has returned for Default() or for a configuration that differs
\* from a valid one by a line width of zero alone.
C20_Witness ==
    /\ verr # "unchecked"
    /\ \/ cfg = Default
       \/ cfg = [Default EXCEPT !.LineWidth = 0]

----------------------------------------------------------------------------
(* The pipeline: formatMarkdownContent of cmd/mdfmt/main.go, called on a   *)
(* content and then on what it returned.                                    *)

MaxParagraphs == 2

\* The contents the parser is modelled on: lines of letters, no two of them
\* adjacent, so that every non-empty line is a paragraph of its own with one
\* inline text.
Letters == {"a", "b"}

IsPlainParagraphs(s) ==
    LET lines == OutputLines(s)
    IN /\ \A i \in 1..Len(s) : s[i] \in Letters \cup {"\n"}
       /\ \A l \in 1..(Len(lines) - 1) : lines[l] = <<>> \/ lines[l + 1] = <<>>

Keep(lines, l) == IF lines[l] # <<>> THEN <<lines[l]>> ELSE <<>>

\* The paragraphs goldmark finds in such a content.
ParagraphsOf(s) ==
    LET lines == OutputLines(s)
    IN Flatten([l \in 1..Len(lines) |-> Keep(lines, l)])

\* The nodes ast.Walk enters, in order: the root Document, then every
\* Paragraph followed by its Text, each with what extractText returns for it.
WalkOrder(s) ==
    LET paras == ParagraphsOf(s)
    IN <<[Kind |-> "Document", Text |-> TrimSpace(Flatten(paras))]>>
       \o Flatten([i \in 1..Len(paras) |->
                     <<[Kind |-> "Paragraph", Text |-> paras[i]],
                       [Kind |-> "Text", Text |-> paras[i]]>>])

\* GoldmarkParser.Parse: every node the walk enters is converted and, unless
\* nil, appended to the children of the document.
RECURSIVE ConvertAll(_, _)
ConvertAll(h, nodes) ==
    IF nodes = <<>> THEN h
    ELSE ConvertAll(AppendNodes(h, convertNode(Head(nodes), Len(h))),
                    Tail(nodes))

Parse(s) == ConvertAll(<<Document(<<>>)>>, WalkOrder(s))

\* One to MaxParagraphs paragraphs of one word each, a blank line between
\* them, and the empty content.
RECURSIVE SourcesOf(_)
SourcesOf(n) ==
    IF n = 0 THEN {<<>>}
    ELSE {<<"a">>, <<"b">>, <<"a", "b">>}
         \cup {s \o <<"\n", "\n">> \o w :
                 s \in SourcesOf(n - 1) \ {<<>>},
                 w \in {<<"a">>, <<"b">>}}
         \cup SourcesOf(n - 1)

SourceInputs ==
    SourcesOf(MaxParagraphs)
    \cup {s \o NL : s \in SourcesOf(MaxParagraphs) \ {<<>>}}

InitPipeline ==
    /\ formatters = NewThenRegisterDefaults
    /\ nreg = Len(formatters)
    /\ cfg \in {Default,
                [Default EXCEPT !.Heading.Style = "setext",
                                !.Whitespace.EnsureFinalNewline = FALSE]}
    /\ heap = <<Document(<<>>)>>
    /\ walker = NoWalker
    /\ yielded = <<>>
    /\ pc = "source"
    /\ err = NoError
    /\ applied = <<>>
    /\ heap0 = <<>>
    /\ output = <<>>
    /\ rpc = "idle"
    /\ rnext = 0
    /\ result = <<>>
    /\ rerr = NoError
    /\ verr = "unchecked"
    /\ written = <<>>
    /\ input \in SourceInputs
    /\ formatted = <<>>
    /\ returns = <<>>
    /\ seen = <<>>
    /\ CliIdle

\* doc, err := p.Parse(content)
PipelineParse ==
    /\ pc = "source"
    /\ Len(formatted) < 2
    /\ IsPlainParagraphs(input)
    /\ heap' = Parse(input)
    /\ pc' = "build"
    /\ UNCHANGED <<formatters, nreg, cfg, walker, yielded, err, applied, heap0,
                   rvars>>

\* mdRenderer.Render(doc, cfg), once engine.Format has returned nil.
PipelineRender ==
    /\ pc = "done"
    /\ RenderStart

\* return formatted, nil; the caller may hand the text back in.
PipelineReturn ==
    /\ pc = "done"
    /\ Rendered
    /\ formatted' = Append(formatted, result)
    /\ input' = result
    /\ heap' = <<Document(<<>>)>>
    /\ walker' = NoWalker
    /\ yielded' = <<>>
    /\ applied' = <<>>
    /\ heap0' = <<>>
    /\ pc' = "source"
    /\ output' = <<>>
    /\ rpc' = "idle"
    /\ rnext' = 0
    /\ result' = <<>>
    /\ written' = <<>>
    /\ UNCHANGED <<formatters, nreg, cfg, err, rerr, verr, cvars, returns,
                   seen>>

NextPipeline ==
    \/ PipelineParse
    \/ FormatStart
    \/ FormatStep
    \/ PipelineRender
    \/ RenderChild
    \/ RenderReturn
    \/ PipelineReturn

SpecPipeline == InitPipeline /\ [][NextPipeline]_vars

\* C11: running the pipeline on its own output yields the same text as
\* running it once: format(format(D, S), S) = format(D, S).
C11_PipelineIdempotent ==
    Len(formatted) = 2 => formatted[2] = formatted[1]

----------------------------------------------------------------------------
(* The command line: main, processFiles and processFile of                 *)
(* cmd/mdfmt/main.go, on a batch of files.                                 *)

MaxFiles == 2

\* Engine.Format as a function: the tree after the pass and the error.
EngineFormat(h, fs, c) ==
    LET nodes == NewWalker(h, DocId).nodes
        RECURSIVE Pass(_, _)
        Pass(t, i) ==
            IF i > Len(nodes) THEN [heap |-> t, err |-> NoError]
            ELSE LET id == nodes[i]
                     k == FirstMatch(fs, Type(t, id))
                 IN IF k = 0 THEN Pass(t, i + 1)
                    ELSE IF FormatErr(fs[k], t[id]) # NoError
                    THEN [heap |-> t,
                          err |-> ReturnedError(FormatErr(fs[k], t[id]),
                                                Type(t, id), i - 1)]
                    ELSE Pass([t EXCEPT ![id] = FormatNode(fs[k], t[id], c)],
                              i + 1)
    IN Pass(h, 1)

\* Render as a function: the string and the error it returns.
RenderDocument(h, c) ==
    LET kids == h[DocId].Children
        RECURSIVE Loop(_, _)
        Loop(out, i) ==
            IF i > Len(kids) THEN [text |-> FinalNewline(out, c),
                                   err |-> NoError]
            ELSE LET r == renderNode(h, kids[i], 0, c)
                 IN IF r.err # NoError THEN [text |-> <<>>, err |-> r.err]
                    ELSE Loop(out \o r.text, i + 1)
    IN Loop(<<>>, 1)

\* formatMarkdownContent: parse, format with New() plus RegisterDefaults(),
\* render.
formatMarkdownContent(s, c) ==
    LET f == EngineFormat(Parse(s), NewThenRegisterDefaults, c)
    IN IF f.err # NoError THEN [text |-> <<>>, err |-> f.err]
       ELSE RenderDocument(f.heap, c)

\* A comparison of the two texts as they stand.
hasContentChangedExactly(original, text) == original # text

hasContentChanged(original, text) == TrimSpace(original) # TrimSpace(text)

\* The case handleFileOutput's switch takes.
OutputMode(a) ==
    CASE a.write -> "write"
      [] a.check -> "check"
      [] a.list  -> "list"
      [] a.diff  -> "diff"
      [] OTHER   -> "stdout"

\* The contents of the files: empty, a final newline alone, blank lines
\* alone, and a paragraph.
FileContents == {<<>>, <<"\n">>, <<"\n", "\n">>, <<"a">>}

\* A file of the batch: its content, whether os.ReadFile succeeds on it and
\* whether os.WriteFile does.
FileInputs ==
    {[content |-> s, readable |-> TRUE, writable |-> w] :
        s \in FileContents, w \in BOOLEAN}
    \cup {[content |-> <<>>, readable |-> FALSE, writable |-> FALSE]}

RECURSIVE BatchesOf(_)
BatchesOf(n) ==
    IF n = 0 THEN {<<>>}
    ELSE BatchesOf(n - 1)
         \cup {Append(b, f) : b \in {x \in BatchesOf(n - 1) : Len(x) = n - 1},
                              f \in FileInputs}

ArgsInputs ==
    [write : BOOLEAN, check : BOOLEAN, list : BOOLEAN, diff : BOOLEAN]

InitCli ==
    /\ formatters = <<>>
    /\ nreg = 0
    /\ cfg = Default
    /\ heap = <<Document(<<>>)>>
    /\ walker = NoWalker
    /\ yielded = <<>>
    /\ pc = "build"
    /\ err = NoError
    /\ applied = <<>>
    /\ heap0 = <<>>
    /\ output = <<>>
    /\ rpc = "idle"
    /\ rnext = 0
    /\ result = <<>>
    /\ rerr = NoError
    /\ verr = "unchecked"
    /\ written = <<>>
    /\ input = <<>>
    /\ formatted = <<>>
    /\ args \in ArgsInputs
    /\ files \in BatchesOf(MaxFiles)
    /\ disk = [i \in 1..Len(files) |-> files[i].content]
    /\ cpc = "main"
    /\ fidx = 0
    /\ hasChanges = FALSE
    /\ exitCode = -1
    /\ reads = <<>>
    /\ writes = <<>>
    /\ returns = <<>>
    /\ seen = <<>>

ovars == <<formatters, nreg, cfg, heap, walker, yielded, pc, applied, heap0,
           output, rpc, rnext, result, rerr, verr, written, input, formatted,
           returns, seen>>

\* os.Exit(code) with the error main printed.
Exit(code, e) ==
    /\ cpc' = "exited"
    /\ exitCode' = code
    /\ err' = e

ExitCodeError == 2

CliError(cause) == [cause |-> cause, attached |-> {}]

\* main up to processFiles' loop fails: loadConfig returns an error, no path
\* is given, or FindFiles returns an error.
CliSetupFails ==
    /\ cpc = "main"
    /\ Exit(ExitCodeError, CliError("setup"))
    /\ UNCHANGED <<ovars, args, files, disk, fidx, hasChanges, reads, writes>>

\* main up to processFiles' loop: the files are found; none ends the process.
CliFindFiles ==
    /\ cpc = "main"
    /\ IF Len(files) = 0
       THEN Exit(0, NoError)
       ELSE /\ cpc' = "files"
            /\ UNCHANGED <<exitCode, err>>
    /\ UNCHANGED <<ovars, args, files, disk, fidx, hasChanges, reads, writes>>

\* One iteration of processFiles' loop: processFile(file, cfg, args).
CliProcessFile ==
    /\ cpc = "files"
    /\ fidx < Len(files)
    /\ LET i == fidx + 1
           r == formatMarkdownContent(disk[i], cfg)
           changed == hasContentChanged(disk[i], r.text)
           writing == OutputMode(args) = "write" /\ changed
       IN /\ reads' = Append(reads, i)
          /\ IF ~files[i].readable
             THEN /\ Exit(ExitCodeError, CliError("read"))
                  /\ UNCHANGED <<disk, fidx, hasChanges, writes>>
             ELSE IF r.err # NoError
             THEN /\ Exit(ExitCodeError, r.err)
                  /\ UNCHANGED <<disk, fidx, hasChanges, writes>>
             ELSE /\ writes' = IF writing THEN Append(writes, i) ELSE writes
                  /\ IF writing /\ ~files[i].writable
                     THEN /\ Exit(ExitCodeError, CliError("write"))
                          /\ UNCHANGED <<disk, fidx, hasChanges>>
                     ELSE /\ disk' = IF writing
                                     THEN [disk EXCEPT ![i] = r.text]
                                     ELSE disk
                          /\ hasChanges' = (hasChanges \/ changed)
                          /\ fidx' = fidx + 1
                          /\ UNCHANGED <<cpc, exitCode, err>>
    /\ UNCHANGED <<ovars, args, files>>

\* processFiles after its loop, and main's return.
CliFinish ==
    /\ cpc = "files"
    /\ fidx = Len(files)
    /\ Exit(IF args.check /\ hasChanges THEN 1 ELSE 0, NoError)
    /\ UNCHANGED <<ovars, args, files, disk, fidx, hasChanges, reads, writes>>

NextCli ==
    \/ CliSetupFails
    \/ CliFindFiles
    \/ CliProcessFile
    \/ CliFinish

SpecCli == InitCli /\ [][NextCli]_vars

----------------------------------------------------------------------------
(* Properties of the command line. *)

Exited == cpc = "exited"

\* The invocation selects check mode and handleFileOutput takes it.
CheckMode == OutputMode(args) = "check"

\* The text formatMarkdownContent returns for the file as it was.
FormattedOf(i) == formatMarkdownContent(files[i].content, cfg).text

ModeCount(a) ==
    Cardinality({m \in {"write", "check", "list", "diff"} : a[m]})

\* C22: an invocation that selects more than one of the modes write, check,
\* list and diff is rejected with exit code 2 before any file is read or
\* written.
C22_ModesMutuallyExclusive ==
    ModeCount(args) > 1 =>
        /\ reads = <<>>
        /\ writes = <<>>
        /\ Exited => exitCode = ExitCodeError

\* C23: in a batch, a failure on one file is reported and that file is
\* skipped, and every remaining file is still processed: once the process has
\* ended after starting on the batch, each file of the batch was read.
C23_BatchContinuesAfterFailure ==
    Exited /\ reads # <<>> =>
        \A i \in 1..Len(files) : \E k \in 1..Len(reads) : reads[k] = i

\* C30: in write mode, after a batch processed without error, the content of
\* every file equals the formatter's output for its original content.
C30_WriteModeStoresFormatted ==
    Exited /\ OutputMode(args) = "write" /\ err = NoError =>
        \A i \in 1..Len(files) : disk[i] = FormattedOf(i)

\* The priorities of the rules of an engine, in list order.
PrioritiesOf(fs) == [i \in 1..Len(fs) |-> Priority(fs[i])]

\* The position of the one custom rule of a list of rules.
CustomPosition(fs) == CHOOSE k \in 1..Len(fs) : fs[k].type = "Custom"

\* C25: in the engine built by New() the five default rules have the strictly
\* decreasing priorities 100, 90, 80, 70, 10 (Heading, Paragraph, List,
\* CodeBlock, Whitespace), and a rule registered afterwards is placed by its
\* priority: one of priority 5 after Whitespace, one of priority 95 between
\* Heading and Paragraph.
C25_DefaultPriorities ==
    /\ formatters = New =>
          PrioritiesOf(formatters) = <<HeadingPriority, 90, 80, 70, 10>>
    /\ \A p \in {5, 95} :
          formatters = RegisterOp(New, CustomFormatter("custom", p, {"List"}, {}),
                                  Len(DefaultTypes) + 1)
              => CustomPosition(formatters) = IF p = 5 THEN 6 ELSE 2

\* What Format may change of a node: a Heading's style and level, a List's
\* marker, a ListItem's marker and a CodeBlock's fence; nothing else.
AttributeUpdateOnly(before, after) ==
    /\ after.kind = before.kind
    /\ CASE before.kind = "Heading" ->
                [after EXCEPT !.Style = before.Style, !.Level = before.Level]
                    = before
         [] before.kind \in {"List", "ListItem"} ->
                [after EXCEPT !.Marker = before.Marker] = before
         [] before.kind = "CodeBlock" ->
                [after EXCEPT !.Fence = before.Fence] = before
         [] OTHER -> after = before

Formatting == pc \in {"format", "done", "failed"}

\* C26: Format performs attribute updates only.  From its entry on, the tree
\* has the same nodes; the Document's children and every List's items keep
\* their number, order, identity and kind; and no attribute changes other
\* than Heading style and level, List marker, ListItem marker and CodeBlock
\* fence: texts, the ordered flag, the fenced flag, the language, and every
\* Document, Paragraph and Text node stay as they were.
C26_FormatUpdatesAttributesOnly ==
    Formatting =>
        /\ Len(heap) = Len(heap0)
        /\ \A id \in 1..Len(heap) : AttributeUpdateOnly(heap0[id], heap[id])

C26_Witness ==
    /\ pc = "done"
    /\ heap # heap0
    /\ \E i, j \in 1..Len(Children) :
          /\ heap[Children[i]].kind = "Paragraph"
          /\ heap[Children[i]].Text # <<>>
          /\ heap[Children[j]].kind = "List"
          /\ heap[Children[j]].Items # <<>>
          /\ heap[Children[j]] # heap0[Children[j]]

\* The text the claim gives a ListItem at nesting depth d.
ItemAtDepth(item, d) ==
    Repeat(<<" ", " ">>, d)
    \o (IF item.Marker = <<>> THEN cfg.List.BulletStyle ELSE item.Marker)
    \o SP \o item.Text

\* C27: a ListItem at nesting depth d is emitted as 2*d spaces, its marker, one
\* space and its text, with no newline of its own, and the items of a List
\* that is a direct child of the Document are at depth 0: each line such a
\* List writes is its item without indentation.
C27_ListItemIndentation ==
    \A i \in RenderedOfKind("List") :
        LET lines == OutputLines(written[i])
            items == RenderedNode(i).Items
        IN \A k \in 1..Len(items) :
              /\ k <= Len(lines)
              /\ lines[k] = ItemAtDepth(heap[items[k]], 0)

\* The rule Format calls for a node of the given kind in the engine New()
\* builds, by its registration number (0: none).
RuleOfNew(kind) ==
    LET k == FirstMatch(New, kind)
    IN IF k = 0 THEN 0 ELSE New[k].reg

\* C28: registering the defaults a second time, New() then
\* RegisterDefaults(), does not change the outcome of Format: for each node
\* the rule that fires is the one that fires in the engine of New() alone,
\* and the resulting tree equals the one that engine produces.
C28_SecondDefaultsChangeNothing ==
    formatters = NewThenRegisterDefaults /\ Formatting =>
        /\ Len(applied) = Len(yielded)
        /\ \A j \in 1..Len(applied) :
              applied[j].rule = RuleOfNew(Type(heap0, yielded[j]))
        /\ pc = "done" => heap = EngineFormat(heap0, New, cfg).heap

C28_Witness ==
    /\ formatters = NewThenRegisterDefaults
    /\ pc = "done"
    /\ Len(applied) = MaxChildren + 1
    /\ heap # heap0

----------------------------------------------------------------------------
(* One MarkdownRenderer called more than once: r.output lives in the       *)
(* renderer and is what the next call finds.                               *)

MaxCalls == 2

\* The caller has the result and is about to call Render again, on the
\* same renderer; the document may have grown by then.
RenderAgain ==
    /\ rpc = "returned"
    /\ Len(returns) + 1 < MaxCalls
    /\ rpc' = "idle"
    /\ returns' = Append(returns, result)
    /\ UNCHANGED <<fvars, heap, output, rnext, result, rerr, verr, written,
                   input, formatted, cvars, seen>>

NextRenderAgain ==
    \/ \E new \in RenderInputs(heap) : RenderAppendChild(new)
    \/ RenderStart
    \/ RenderChild
    \/ RenderReturn
    \/ RenderAgain

SpecRenderAgain == InitRender /\ [][NextRenderAgain]_vars

\* C29: a MarkdownRenderer carries no output from one Render call into the
\* next: whatever it rendered before, each call returns exactly what a fresh
\* renderer returns for the document and the settings it is given.
C29_RenderCarriesNothingOver ==
    rpc = "returned" =>
        /\ result = RenderDocument(heap, cfg).text
        /\ rerr = RenderDocument(heap, cfg).err

C29_Witness ==
    /\ rpc = "returned"
    /\ returns # <<>>
    /\ returns[1] # <<>>
    /\ Len(Children) = MaxRenderChildren
    /\ result # returns[1]

----------------------------------------------------------------------------
(* A consumer walking a document itself, changing the tree between the     *)
(* calls of Walker.Next.                                                   *)

MaxWalkAppends == 1

DerefAtCreation(h, h0, id) == IF id <= Len(h0) THEN h0[id] ELSE h[id]

\* What the consumer reads through a yielded Node: the walker's slice holds
\* the interface values of doc.Children, pointers to the nodes of the tree.
Deref(h, h0, id) == h[id]

\* An attribute assignment by the consumer.
Touched(node) ==
    CASE node.kind = "Heading"   -> [node EXCEPT !.Style = "atx"]
      [] node.kind = "List"      -> [node EXCEPT !.Marker = Dash]
      [] node.kind = "ListItem"  -> [node EXCEPT !.Marker = Plus]
      [] node.kind = "CodeBlock" -> [node EXCEPT !.Fence = Backticks]
      [] OTHER -> node

InitWalk ==
    /\ formatters = <<>>
    /\ nreg = 0
    /\ cfg = Default
    /\ heap = <<Document(<<>>)>>
    /\ walker = NoWalker
    /\ yielded = <<>>
    /\ pc = "build"
    /\ err = NoError
    /\ applied = <<>>
    /\ heap0 = <<>>
    /\ RenderIdle

\* walker := parser.NewWalker(doc)
WalkStart ==
    /\ pc = "build"
    /\ pc' = "walk"
    /\ walker' = NewWalker(heap, DocId)
    /\ heap0' = heap
    /\ UNCHANGED <<formatters, nreg, cfg, heap, yielded, err, applied, rvars>>

\* node, ok := walker.Next(), and the consumer's read of the node.
WalkNext ==
    /\ pc = "walk"
    /\ LET r == WalkerNext(walker)
       IN /\ walker' = r.walker
          /\ IF ~r.ok
             THEN /\ pc' = "walked"
                  /\ UNCHANGED <<yielded, seen>>
             ELSE /\ yielded' = Append(yielded, r.node)
                  /\ seen' = Append(seen, Deref(heap, heap0, r.node))
                  /\ UNCHANGED pc
    /\ UNCHANGED <<formatters, nreg, cfg, heap, err, applied, heap0, output,
                   rpc, rnext, result, rerr, verr, written, input, formatted,
                   cvars, returns>>

\* Between two Next calls the consumer assigns an attribute of a node the
\* walker has not yielded yet.
WalkMutate(id) ==
    /\ pc = "walk"
    /\ yielded # <<>>
    /\ \A k \in 1..Len(yielded) : yielded[k] # id
    /\ heap[id] = heap0[id]
    /\ Touched(heap[id]) # heap[id]
    /\ heap' = [heap EXCEPT ![id] = Touched(heap[id])]
    /\ UNCHANGED <<formatters, nreg, cfg, walker, yielded, pc, err, applied,
                   heap0, rvars>>

\* Between two Next calls the consumer appends a child to the Document.
WalkAppend(new) ==
    /\ pc = "walk"
    /\ yielded # <<>>
    /\ Len(Children) < Len(heap0[DocId].Children) + MaxWalkAppends
    /\ heap' = AppendNodes(heap, new)
    /\ UNCHANGED <<formatters, nreg, cfg, walker, yielded, pc, err, applied,
                   heap0, rvars>>

NextWalk ==
    \/ \E new \in ApiNodes(Len(heap)) : AppendChild(new)
    \/ WalkStart
    \/ WalkNext
    \/ \E id \in 2..Len(heap0) : WalkMutate(id)
    \/ \E new \in ApiNodes(Len(heap)) : WalkAppend(new)

SpecWalk == InitWalk /\ [][NextWalk]_vars

Walking == pc \in {"walk", "walked"}

\* Each child the walker yielded was read as it is now: the consumer's
\* assignments, all made before the node's yield, are in what it read.
SeenLive == \A k \in 2..Len(seen) : seen[k] = heap[yielded[k]]

\* C24: mutations a consumer makes between two Next calls are visible to the
\* later yields, the walker reading the live tree and not a copy: a walk that
\* has ended yielded the Document and the children it has now, and every
\* child was read with the attributes it has now.
C24_WalkerReadsLiveTree ==
    Walking =>
        /\ SeenLive
        /\ pc = "walked" => yielded = <<DocId>> \o Children

\* C24, amended: the walker yields the nodes of the child sequence as it was
\* when the walker was created, whatever is appended to the Document
\* afterwards, and each yielded child is the node itself, read with the
\* attributes it has at its yield: an assignment made before the yield to a
\* not-yet-yielded node is visible.
C24_WalkerReadsLiveNodesOfCopiedSequence ==
    Walking =>
        /\ SeenLive
        /\ yielded = SubSeq(<<DocId>> \o heap0[DocId].Children, 1, Len(yielded))
        /\ pc = "walked" => Len(yielded) = 1 + Len(heap0[DocId].Children)

C24_Witness ==
    /\ pc = "walked"
    /\ Len(Children) > Len(heap0[DocId].Children)
    /\ \E k \in 2..Len(yielded) : heap[yielded[k]] # heap0[yielded[k]]

============================================================================
